---- MODULE Spec2Model ----
(***************************************************************************)
(* Recitation checker: Arabic text normalisation, the incremental aligner  *)
(* (check-recitation route), the full-session comparator (final-analysis   *)
(* route) and the recitation page that drives them.                        *)
(*                                                                         *)
(* A JavaScript string is a sequence of characters; a character is named   *)
(* by a short ASCII string ("alif" is U+0627, "fatha" is U+064E, ...).     *)
(* A JavaScript number that is a ratio is kept as [num, den], unreduced.   *)
(***************************************************************************)
EXTENDS Integers, Sequences, FiniteSets, TLC

(* ------------------------------------------------------------------ *)
(* Bounds of the model                                                 *)
(* ------------------------------------------------------------------ *)
MaxRefWords == 2
MaxChunkWords == 3
MaxSessionChunks == 2
MaxSessions == 2
MaxResults == 2
MaxTimers == 1

(* ------------------------------------------------------------------ *)
(* Characters                                                          *)
(* ------------------------------------------------------------------ *)
\* [ً-ْ], [ٓ-ٕ], [ٖ-ٟ]: fatha U+064E, sukun U+0652
Diacritics == {"fatha", "sukun"}
\* [ٰ]
SuperscriptAlif == {"superalif"}
\* [ۖ-ۭ]: small high meem U+06E2
QuranicMarks == {"smallmeem"}
\* [ـ]
Tatweel == {"tatweel"}
AlifVariations == {"alifHamza", "alifMadda"}
YaVariations == {"alifMaqsura", "yaHamza"}
TaMarbuta == {"taMarbuta"}
Digits == {"digit1", "digit2"}
\* what \s matches
Whitespace == {"space", "newline"}

(* ------------------------------------------------------------------ *)
(* String helpers: String.prototype.replace with a /g character class, *)
(* split(/\s+/), trim                                                  *)
(* ------------------------------------------------------------------ *)
RemoveChars(s, class) == SelectSeq(s, LAMBDA c : c \notin class)

ReplaceChars(s, class, by) ==
    [i \in 1..Len(s) |-> IF s[i] \in class THEN by ELSE s[i]]

\* .replace(/\s+/g, " "): every maximal run of whitespace becomes one space
\* (all of a run but its last character go, the last becomes the space)
CollapseWhitespace(s) ==
    LET marked == [i \in 1..Len(s) |->
                      IF s[i] \notin Whitespace THEN s[i]
                      ELSE IF i < Len(s) /\ s[i + 1] \in Whitespace THEN "dropped"
                      ELSE "space"]
    IN SelectSeq(marked, LAMBDA c : c # "dropped")

\* .trim()
Trim(s) ==
    LET solid == {i \in 1..Len(s) : s[i] \notin Whitespace}
    IN IF solid = {} THEN <<>>
       ELSE SubSeq(s, CHOOSE i \in solid : \A k \in solid : i <= k,
                      CHOOSE j \in solid : \A k \in solid : j >= k)

\* /$$\s*\d+\s*$$/g as the file has it: "$" asserts the end of the input (no
\* m flag), so a match can only start at the end of the string, where \d+
\* finds no digit.  A match is a span <<i, j>> of s that starts where "$"
\* holds (i = Len(s) + 1) and that \s*\d+\s* fills.
VerseNumberMatches(s) ==
    {m \in {Len(s) + 1} \X (1..Len(s)) :
        /\ m[1] <= m[2]
        /\ \E d \in m[1]..m[2] : s[d] \in Digits
        /\ \A k \in m[1]..m[2] : s[k] \in Digits \cup Whitespace}

RemoveVerseNumbers(s) ==
    LET spans == VerseNumberMatches(s)
        marked == [i \in 1..Len(s) |->
                      IF \E m \in spans : m[1] <= i /\ i <= m[2]
                      THEN "dropped" ELSE s[i]]
    IN SelectSeq(marked, LAMBDA c : c # "dropped")

\* s.split(/\s+/): cut at every maximal whitespace run; a leading or
\* trailing run leaves an empty string at that end, "" gives [""]
RECURSIVE SplitLoop(_, _, _, _)
SplitLoop(s, i, cur, out) ==
    IF i > Len(s) THEN Append(out, cur)
    ELSE IF s[i] \in Whitespace
         THEN IF i > 1 /\ s[i - 1] \in Whitespace
              THEN SplitLoop(s, i + 1, cur, out)
              ELSE SplitLoop(s, i + 1, <<>>, Append(out, cur))
    ELSE SplitLoop(s, i + 1, Append(cur, s[i]), out)

SplitWhitespace(s) == SplitLoop(s, 1, <<>>, <<>>)

\* .filter((w) => w.trim())
FilterNonBlank(ws) == SelectSeq(ws, LAMBDA w : Trim(w) # <<>>)

\* the set of characters of a string: new Set(s.split(""))
CharSet(s) == {s[i] : i \in 1..Len(s)}

\* words.join(" ")
RECURSIVE JoinWords(_)
JoinWords(ws) ==
    IF ws = <<>> THEN <<>>
    ELSE IF Len(ws) = 1 THEN Head(ws)
    ELSE Head(ws) \o <<"space">> \o JoinWords(Tail(ws))

(* ------------------------------------------------------------------ *)
(* Numbers                                                             *)
(* ------------------------------------------------------------------ *)
One == [num |-> 1, den |-> 1]
Zero == [num |-> 0, den |-> 1]
Ratio(n, d) == [num |-> n, den |-> d]
\* r < a/b
RatioLess(r, a, b) == r.num * b < a * r.den
RatioIsOne(r) == r.num = r.den
RECURSIVE GCD(_, _)
GCD(a, b) == IF b = 0 THEN a ELSE GCD(b, a % b)

\* the ratio in lowest terms, as the pair <<num, den>>
Reduced(r) ==
    LET g == GCD(r.num, r.den) IN <<r.num \div g, r.den \div g>>

\* Math.round(r * 100) of the IEEE double r.  For a ratio with r * 100 not
\* halfway between two integers the double product rounds as the exact
\* value does (it is off the halfway point by at least 1 / (2 * den), the
\* double by less than 1e-13).  Of the ratios up to 1 with r * 100 exactly
\* halfway, those over 8 are exact doubles and round upwards, and of those
\* over 40 and 200 the double product falls below the half for these, which
\* Math.round therefore rounds downwards:
HalfwayBelow100 ==
    {<<23, 40>>, <<29, 200>>, <<57, 200>>, <<113, 200>>}

\* Math.round(r * 100): the nearest integer, halves upwards, of the double
Round100(r) ==
    LET exact == (200 * r.num + r.den) \div (2 * r.den)
    IN IF Reduced(r) \in HalfwayBelow100 THEN exact - 1 ELSE exact

(* ------------------------------------------------------------------ *)
(* Normaliser of the two routes                                        *)
(* ------------------------------------------------------------------ *)
\* a normaliser that takes the digits out after it has collapsed the
\* whitespace
normalizeArabicText_DigitsLast(text) ==
    IF text = <<>> THEN <<>>
    ELSE
    LET s1 == RemoveChars(text, Diacritics \cup SuperscriptAlif
                                    \cup QuranicMarks \cup Tatweel)
        s2 == ReplaceChars(s1, AlifVariations, "alif")
        s3 == ReplaceChars(s2, YaVariations, "ya")
        s4 == ReplaceChars(s3, TaMarbuta, "ha")
        s5 == CollapseWhitespace(s4)
    IN RemoveChars(Trim(s5), Digits)

normalizeArabicText(text) ==
    IF text = <<>> THEN <<>>
    ELSE
    LET s1 == RemoveChars(text, Diacritics)
        s2 == RemoveChars(s1, SuperscriptAlif)
        s3 == RemoveChars(s2, QuranicMarks)
        s4 == RemoveChars(s3, Tatweel)
        s5 == ReplaceChars(s4, AlifVariations, "alif")
        s6 == ReplaceChars(s5, YaVariations, "ya")
        s7 == ReplaceChars(s6, TaMarbuta, "ha")
        s8 == RemoveVerseNumbers(s7)
        s9 == RemoveChars(s8, Digits)
        s10 == CollapseWhitespace(s9)
    IN Trim(s10)

\* normalized.split(/\s+/).filter((w) => w.trim())
Words(normalized) == FilterNonBlank(SplitWhitespace(normalized))

(* ------------------------------------------------------------------ *)
(* check-recitation route                                              *)
(* ------------------------------------------------------------------ *)
MatchThresholdNum == 4
MatchThresholdDen == 5

\* a calculateSimilarity that compares the words as written
calculateSimilarity_Unnormalized(word1, word2) ==
    LET chars1 == CharSet(word1)
        chars2 == CharSet(word2)
    IN IF word1 = word2 THEN One
       ELSE IF Cardinality(chars1 \cup chars2) > 0
            THEN Ratio(Cardinality(chars1 \cap chars2),
                       Cardinality(chars1 \cup chars2))
            ELSE Zero

calculateSimilarity(word1, word2) ==
    LET norm1 == normalizeArabicText(word1)
        norm2 == normalizeArabicText(word2)
        chars1 == CharSet(norm1)
        chars2 == CharSet(norm2)
        intersection == chars1 \cap chars2
        union == chars1 \cup chars2
    IN IF norm1 = norm2 THEN One
       ELSE IF Cardinality(union) > 0
            THEN Ratio(Cardinality(intersection), Cardinality(union))
            ELSE Zero

\* an incorrect error that reports the spoken word as the expected one
IncorrectError_ExpectedSpoken(pos, spokenWord, expectedWord, similarity) ==
    [position |-> pos, spoken |-> spokenWord, expected |-> spokenWord,
     type |-> "incorrect", similarity |-> Round100(similarity)]

IncorrectError(pos, spokenWord, expectedWord, similarity) ==
    [position |-> pos, spoken |-> spokenWord, expected |-> expectedWord,
     type |-> "incorrect", similarity |-> Round100(similarity)]

ExtraError(pos, spokenWord) ==
    [position |-> pos, spoken |-> spokenWord, expected |-> <<>>,
     type |-> "extra", similarity |-> 0]

\* const expectedPosition = position + i
ExpectedPosition_OffByOne(position, i) == position + i + 1
ExpectedPosition(position, i) == position + i

\* if (position >= allWords.length)
PositionAtEnd_Strict(position, allWords) == position > Len(allWords)
PositionAtEnd(position, allWords) == position >= Len(allWords)

\* the for loop of checkCurrentWords, from index i (0-based, as in the code) on
RECURSIVE CheckLoop(_, _, _, _, _, _)
CheckLoop(spokenWords, allWords, position, i, errors, processedWords) ==
    IF ~(i < Len(spokenWords))
    THEN [errors |-> errors, newPosition |-> position + processedWords]
    ELSE
    LET expectedPosition == ExpectedPosition(position, i)
    IN IF expectedPosition < Len(allWords)
       THEN LET expectedWord == allWords[expectedPosition + 1]
                similarity == calculateSimilarity(spokenWords[i + 1], expectedWord)
            IN IF RatioLess(similarity, MatchThresholdNum, MatchThresholdDen)
               THEN CheckLoop(spokenWords, allWords, position, i + 1,
                              Append(errors, IncorrectError(expectedPosition,
                                        spokenWords[i + 1], expectedWord, similarity)),
                              processedWords)
               ELSE CheckLoop(spokenWords, allWords, position, i + 1,
                              errors, processedWords + 1)
       ELSE CheckLoop(spokenWords, allWords, position, i + 1,
                      Append(errors, ExtraError(expectedPosition, spokenWords[i + 1])),
                      processedWords)

\* a checkCurrentWords that moves the cursor by the whole chunk
checkCurrentWords_AdvanceByChunk(spoken, surahText, position) ==
    IF spoken = <<>> \/ surahText = <<>>
    THEN [errors |-> <<>>, newPosition |-> position]
    ELSE
    LET spokenWords == Words(normalizeArabicText(spoken))
        allWords == Words(normalizeArabicText(surahText))
        looped == CheckLoop(spokenWords, allWords, position, 0, <<>>, 0)
    IN IF PositionAtEnd(position, allWords)
       THEN [errors |-> <<>>, newPosition |-> position]
       ELSE [errors |-> looped.errors,
             newPosition |-> position + Len(spokenWords)]

checkCurrentWords(spoken, surahText, position) ==
    IF spoken = <<>> \/ surahText = <<>>
    THEN [errors |-> <<>>, newPosition |-> position]
    ELSE
    LET spokenWords == Words(normalizeArabicText(spoken))
        allWords == Words(normalizeArabicText(surahText))
    IN IF PositionAtEnd(position, allWords)
       THEN [errors |-> <<>>, newPosition |-> position]
       ELSE CheckLoop(spokenWords, allWords, position, 0, <<>>, 0)

(* ------------------------------------------------------------------ *)
(* final-analysis route                                                *)
(* ------------------------------------------------------------------ *)
\* a Math.max that returns its first argument
Max_First(a, b) == a

Max(a, b) == IF a >= b THEN a ELSE b

\* the greedy loop of calculateTextSimilarity: for each word of words1 (from
\* index i), the first unused index j of words2 holding the same word
\* a search that does not look at the used set
FirstUnusedMatch_AnyMatch(word1, words2, used) ==
    LET hits == {j \in 1..Len(words2) : word1 = words2[j]}
    IN IF hits = {} THEN 0 ELSE CHOOSE j \in hits : \A k \in hits : j <= k

FirstUnusedMatch(word1, words2, used) ==
    LET hits == {j \in 1..Len(words2) : j \notin used /\ word1 = words2[j]}
    IN IF hits = {} THEN 0 ELSE CHOOSE j \in hits : \A k \in hits : j <= k

RECURSIVE GreedyMatches(_, _, _, _, _)
GreedyMatches(words1, words2, i, used, matches) ==
    IF i > Len(words1) THEN matches
    ELSE LET j == FirstUnusedMatch(words1[i], words2, used)
         IN IF j = 0
            THEN GreedyMatches(words1, words2, i + 1, used, matches)
            ELSE GreedyMatches(words1, words2, i + 1, used \cup {j}, matches + 1)

\* the score taken over the shorter of the two word lists
calculateTextSimilarity_MinLength(text1, text2) ==
    LET norm1 == normalizeArabicText(text1)
        norm2 == normalizeArabicText(text2)
        words1 == SplitWhitespace(norm1)
        words2 == SplitWhitespace(norm2)
        minLength == IF Len(words1) <= Len(words2) THEN Len(words1)
                     ELSE Len(words2)
    IN IF norm1 = norm2 THEN One
       ELSE IF minLength = 0 THEN One
       ELSE Ratio(GreedyMatches(words1, words2, 1, {}, 0), minLength)

calculateTextSimilarity(text1, text2) ==
    LET norm1 == normalizeArabicText(text1)
        norm2 == normalizeArabicText(text2)
        words1 == SplitWhitespace(norm1)
        words2 == SplitWhitespace(norm2)
        maxLength == Max(Len(words1), Len(words2))
    IN IF norm1 = norm2 THEN One
       ELSE IF maxLength = 0 THEN One
       ELSE Ratio(GreedyMatches(words1, words2, 1, {}, 0), maxLength)

\* an incorrect detail with the two words exchanged
IncorrectDetail_Swapped(spokenWord, originalWord) ==
    [type |-> "incorrect", spoken |-> originalWord, correct |-> spokenWord,
     similarity |-> Round100(calculateTextSimilarity(originalWord, spokenWord))]

IncorrectDetail(spokenWord, originalWord) ==
    [type |-> "incorrect", spoken |-> spokenWord, correct |-> originalWord,
     similarity |-> Round100(calculateTextSimilarity(spokenWord, originalWord))]

ExtraDetail(spokenWord) == [type |-> "extra", extra |-> spokenWord]

MissingDetail(originalWord) == [type |-> "missing", missing |-> originalWord]

\* the for loop of compareTexts, from index i (1-based) on
RECURSIVE CompareLoop(_, _, _, _)
CompareLoop(spokenWords, originalWords, i, differences) ==
    IF i > Max(Len(spokenWords), Len(originalWords)) THEN differences
    ELSE
    LET hasSpoken == i <= Len(spokenWords) /\ spokenWords[i] # <<>>
        hasOriginal == i <= Len(originalWords) /\ originalWords[i] # <<>>
    IN IF hasSpoken /\ hasOriginal
       THEN IF spokenWords[i] # originalWords[i]
            THEN CompareLoop(spokenWords, originalWords, i + 1,
                     Append(differences,
                            IncorrectDetail(spokenWords[i], originalWords[i])))
            ELSE CompareLoop(spokenWords, originalWords, i + 1, differences)
       ELSE IF hasSpoken /\ ~hasOriginal
       THEN CompareLoop(spokenWords, originalWords, i + 1,
                Append(differences, ExtraDetail(spokenWords[i])))
       ELSE IF ~hasSpoken /\ hasOriginal
       THEN CompareLoop(spokenWords, originalWords, i + 1,
                Append(differences, MissingDetail(originalWords[i])))
       ELSE CompareLoop(spokenWords, originalWords, i + 1, differences)

\* a compareTexts that splits the texts as given, without normalising them
compareTexts_Unnormalized(spoken, original) ==
    LET spokenNormalized == normalizeArabicText(spoken)
        originalNormalized == normalizeArabicText(original)
        similarity == calculateTextSimilarity(spokenNormalized, originalNormalized)
        spokenWords == Words(spoken)
        originalWords == Words(original)
    IN [differences |-> CompareLoop(spokenWords, originalWords, 1, <<>>),
        similarity |-> similarity]

compareTexts(spoken, original) ==
    LET spokenNormalized == normalizeArabicText(spoken)
        originalNormalized == normalizeArabicText(original)
        similarity == calculateTextSimilarity(spokenNormalized, originalNormalized)
        spokenWords == Words(spokenNormalized)
        originalWords == Words(originalNormalized)
    IN [differences |-> CompareLoop(spokenWords, originalWords, 1, <<>>),
        similarity |-> similarity]

\* differences.filter((d) => d.type === t)
OfType(differences, t) == SelectSeq(differences, LAMBDA d : d.type = t)

\* the ratios up to 1 with r * 1000 exactly halfway between two integers
\* whose double (r * 100) * 10 falls below the half (those over 16 are exact;
\* these are over 80, 400 and 2000)
HalfwayBelowTenths ==
    {<<23, 80>>, <<41, 80>>, <<51, 80>>, <<29, 400>>, <<57, 400>>, <<113,
     400>>, <<201, 400>>, <<203, 400>>, <<207, 400>>, <<251, 400>>, <<253,
     400>>, <<11, 2000>>, <<59, 2000>>, <<103, 2000>>, <<119, 2000>>,
     <<141, 2000>>, <<173, 2000>>, <<181, 2000>>, <<211, 2000>>, <<241,
     2000>>, <<347, 2000>>, <<351, 2000>>, <<357, 2000>>, <<407, 2000>>,
     <<411, 2000>>, <<417, 2000>>, <<427, 2000>>, <<471, 2000>>, <<477,
     2000>>, <<487, 2000>>, <<569, 2000>>, <<689, 2000>>, <<697, 2000>>,
     <<699, 2000>>, <<709, 2000>>, <<719, 2000>>, <<729, 2000>>, <<817,
     2000>>, <<819, 2000>>, <<827, 2000>>, <<829, 2000>>, <<839, 2000>>,
     <<849, 2000>>, <<939, 2000>>, <<947, 2000>>, <<949, 2000>>, <<959,
     2000>>, <<969, 2000>>, <<979, 2000>>, <<1003, 2000>>, <<1007, 2000>>,
     <<1009, 2000>>, <<1013, 2000>>, <<1017, 2000>>, <<1019, 2000>>,
     <<1253, 2000>>, <<1263, 2000>>, <<1283, 2000>>, <<1293, 2000>>,
     <<1303, 2000>>, <<1313, 2000>>, <<1323, 2000>>, <<1333, 2000>>,
     <<1503, 2000>>, <<1509, 2000>>, <<1513, 2000>>, <<1519, 2000>>,
     <<1523, 2000>>, <<1529, 2000>>, <<1533, 2000>>, <<1543, 2000>>,
     <<1553, 2000>>, <<1563, 2000>>, <<1573, 2000>>, <<1583, 2000>>,
     <<1753, 2000>>, <<1759, 2000>>, <<1763, 2000>>, <<1769, 2000>>,
     <<1773, 2000>>, <<1779, 2000>>, <<1783, 2000>>, <<1793, 2000>>,
     <<1803, 2000>>, <<1813, 2000>>, <<1823, 2000>>, <<1833, 2000>>}

\* Math.round(x * 10) / 10 of the double x = r * 100, kept in tenths
RoundTenths100(r) ==
    LET exact == (2000 * r.num + r.den) \div (2 * r.den)
    IN IF Reduced(r) \in HalfwayBelowTenths THEN exact - 1 ELSE exact

\* Math.round(Math.min((spokenWords / totalWords) * 100, 100) * 10) / 10, in
\* tenths: n / 0 is Infinity for n > 0, which Math.min cuts to 100, and 0 / 0
\* is NaN, which stays NaN
CompletionTenths(spokenWords, totalCount) ==
    IF totalCount = 0
    THEN IF spokenWords = 0 THEN [isNaN |-> TRUE, tenths |-> 0]
         ELSE [isNaN |-> FALSE, tenths |-> 1000]
    ELSE IF spokenWords >= totalCount THEN [isNaN |-> FALSE, tenths |-> 1000]
    ELSE [isNaN |-> FALSE, tenths |-> RoundTenths100(Ratio(spokenWords, totalCount))]

\* what generateImprovementSuggestions can return: the advisory service is
\* outside the program, so its answer is an input: it threw, or it gave so
\* many usable lines
SuggestionCap == 5
FallbackCount == 5
SuggestionOutcomes ==
    {[threw |-> TRUE, lines |-> 0]}
        \cup {[threw |-> FALSE, lines |-> n] : n \in {0, 1, SuggestionCap + 1}}

\* the function without its list for a reply with no usable line
generateImprovementSuggestions_NoFallback(outcome) ==
    IF outcome.threw THEN [from |-> "catch", count |-> FallbackCount]
    ELSE [from |-> "ai",
          count |-> IF outcome.lines > SuggestionCap THEN SuggestionCap
                    ELSE outcome.lines]

generateImprovementSuggestions(outcome) ==
    IF outcome.threw THEN [from |-> "catch", count |-> FallbackCount]
    ELSE IF outcome.lines = 0 THEN [from |-> "fallback", count |-> FallbackCount]
    ELSE [from |-> "ai",
          count |-> IF outcome.lines > SuggestionCap THEN SuggestionCap
                    ELSE outcome.lines]

\* the POST handler of the final-analysis route; realtimeErrors is read from
\* the request and not used
FinalAnalysis(transcript, surahText, sessionErrors, outcome) ==
    IF transcript = <<>> \/ surahText = <<>>
    THEN [status |-> 400, error |-> "Missing transcript or surah text"]
    ELSE
    LET compared == compareTexts(transcript, surahText)
        differences == compared.differences
        totalCount == Len(Words(normalizeArabicText(surahText)))
        spokenWords == Len(Words(normalizeArabicText(transcript)))
        errorsByType == [incorrect |-> OfType(differences, "incorrect"),
                         missing |-> OfType(differences, "missing"),
                         extra |-> OfType(differences, "extra")]
    IN [status |-> 200,
        overall_accuracy |-> RoundTenths100(compared.similarity),
        completion_percentage |-> CompletionTenths(spokenWords, totalCount),
        total_words |-> totalCount,
        spoken_words |-> spokenWords,
        total_errors |-> Len(differences),
        errors_by_type |-> errorsByType,
        error_counts |-> [incorrect |-> Len(errorsByType.incorrect),
                          missing |-> Len(errorsByType.missing),
                          extra |-> Len(errorsByType.extra)],
        suggestions |-> generateImprovementSuggestions(outcome)]

(* ------------------------------------------------------------------ *)
(* Inputs: raw words and the texts built from them                     *)
(* ------------------------------------------------------------------ *)
\* reference words as the text source gives them: a plain word, a word with a
\* letter variant and a diacritic, and a verse marker "(1)"
RefBsm == <<"ba", "sin", "mim">>
RefAllah == <<"alifHamza", "lam", "fatha", "lam", "ha">>
RefMarker == <<"lparen", "digit1", "rparen">>
RefPool == {RefBsm, RefAllah, RefMarker}

\* spoken pieces: the two words as a recogniser writes them, a word with the
\* letters of RefAllah but not its spelling, a wrong word, and a piece that
\* normalises to nothing
SpokenBsm == <<"ba", "sin", "mim">>
SpokenAllah == <<"alif", "lam", "lam", "ha">>
SpokenAlh == <<"alif", "lam", "ha">>
SpokenBsn == <<"ba", "sin", "nun">>
SpokenBlank == <<"newline", "digit2">>
SpokenPool == {SpokenBsm, SpokenAllah, SpokenAlh, SpokenBsn, SpokenBlank}

SeqsUpTo(S, n) == UNION {[1..k -> S] : k \in 0..n}

ReferenceTexts == {JoinWords(ws) : ws \in SeqsUpTo(RefPool, MaxRefWords)}
SpokenTexts ==
    {JoinWords(ws) : ws \in SeqsUpTo(SpokenPool, MaxChunkWords)}
        \cup {<<"space">>, <<"newline", "space">>}

\* the request a caller sends to the final-analysis route after it has served
\* the finalized chunks of a session one after the other, each call to the
\* check-recitation route made with the cursor the call before returned
SessionChunks ==
    {<<>>, SpokenBsm, SpokenAlh, SpokenBlank,
     <<"space">> \o SpokenBsm, <<"space">> \o SpokenAlh}

RECURSIVE SerialSession(_, _, _)
SerialSession(chunks, surahText, acc) ==
    IF chunks = <<>> THEN acc
    ELSE LET result == checkCurrentWords(Trim(Head(chunks)), surahText, acc.cursor)
         IN SerialSession(Tail(chunks), surahText,
                [cursor |-> result.newPosition,
                 errors |-> acc.errors \o result.errors,
                 transcript |-> acc.transcript \o Head(chunks)])

SessionStart == [cursor |-> 0, errors |-> <<>>, transcript |-> <<>>]

VARIABLES
    aSpoken, aFullText, aPosition, aResult, aPc,
    cSpoken, cOriginal, cResult, cPc,
    fTranscript, fFullText, fRealtimeErrors, fResponse, fPc,
    \* what the generateText call of the request did, once it was made
    fGenerated,
    \* the recitation page: React state, refs, the recogniser, pending fetches
    mounted, loading, fullText, totalWords, isRecording, sessionStarted,
    currentPosition, progress, realtimeErrors, error, currentTranscript,
    transcriptRef, recognizing, recEvent, timers, fetches, storedAnalysis,
    \* the route router.push was last given, until the router commits it
    navigation,
    \* history of the page, for the properties (chunkWords: the tokens of the
    \* finalized pieces of the session, piece after piece)
    session, sessionChunks, chunkWords, results, sessionEnded, finalRequests,
    \* the normalisers applied to one text
    nAyahs, nText, nResult, nPc,
    \* the two similarity functions applied to one pair of texts
    wText1, wText2, wWordResult, wTextResult,
    \* a caller that sends the chunks of one session one after the other
    sFullText, sCursor, sCalls, sChunk, sExamined, sEarlier,
    \* the chunks sent so far, in order, and the errors the calls returned
    sSent, sErrors

advVars == <<aSpoken, aFullText, aPosition, aResult, aPc>>
cmpVars == <<cSpoken, cOriginal, cResult, cPc>>
finVars == <<fTranscript, fFullText, fRealtimeErrors, fResponse, fPc, fGenerated>>
reactVars == <<loading, fullText, totalWords, isRecording, sessionStarted,
               currentPosition, progress, realtimeErrors, error, currentTranscript>>
pageVars == <<mounted, reactVars, transcriptRef, recognizing, recEvent,
              timers, fetches,
              storedAnalysis, navigation, session, sessionChunks, chunkWords,
              results, sessionEnded,
              finalRequests>>
normVars == <<nAyahs, nText, nResult, nPc>>
simVars == <<wText1, wText2, wWordResult, wTextResult>>
serVars == <<sFullText, sCursor, sCalls, sChunk, sExamined, sEarlier,
            sSent, sErrors>>
libVars == <<normVars, simVars, serVars>>
vars == <<advVars, cmpVars, finVars, pageVars, libVars>>

NoResult == [errors |-> <<>>, newPosition |-> 0]
NoComparison == [differences |-> <<>>, similarity |-> One]

NotNormalized == [route |-> <<>>, page |-> <<>>]
NormIdle ==
    /\ nAyahs = <<>> /\ nText = <<>> /\ nResult = NotNormalized /\ nPc = "idle"

NotComputed == [done |-> FALSE, value |-> Zero]
SimIdle ==
    /\ wText1 = <<>> /\ wText2 = <<>>
    /\ wWordResult = NotComputed /\ wTextResult = NotComputed

SerIdle ==
    /\ sFullText = <<>> /\ sCursor = 0 /\ sCalls = 0 /\ sChunk = <<>>
    /\ sExamined = {} /\ sEarlier = {}
    /\ sSent = <<>> /\ sErrors = <<>>

LibIdle == NormIdle /\ SimIdle /\ SerIdle

AdvIdle ==
    /\ aSpoken = <<>> /\ aFullText = <<>> /\ aPosition = 0
    /\ aResult = NoResult /\ aPc = "idle"

CmpIdle ==
    /\ cSpoken = <<>> /\ cOriginal = <<>>
    /\ cResult = NoComparison /\ cPc = "idle"

NoResponse == [status |-> 0]

\* the page as its first render leaves it: every useState at its initial value
\* (page.tsx:66-77), the two mount effects run (page.tsx:82-95): the surah
\* fetch is pending and the recogniser is created
SurahFetch == [url |-> "surah", id |-> 0]
\* the pending setTimeout callbacks: those of onerror (3000 ms) and of onend
\* (100 ms)
NoTimers == [reconnect |-> 0, restart |-> 0]

PageInit ==
    /\ mounted = TRUE
    /\ loading = TRUE
    /\ fullText = <<>>
    /\ totalWords = 0
    /\ isRecording = FALSE
    /\ sessionStarted = FALSE
    /\ currentPosition = 0
    /\ progress = Zero
    /\ realtimeErrors = <<>>
    /\ error = ""
    /\ currentTranscript = <<>>
    /\ transcriptRef = <<>>
    /\ recognizing = FALSE
    /\ recEvent = "none"
    /\ timers = NoTimers
    /\ fetches = {SurahFetch}
    /\ storedAnalysis = NoResponse
    /\ navigation = "none"
    /\ session = 0
    /\ sessionChunks = 0
    /\ chunkWords = <<>>
    /\ results = 0
    /\ sessionEnded = FALSE
    /\ finalRequests = 0

\* generateText is called only after the 400 check of the handler
NotGenerated == [called |-> FALSE, threw |-> FALSE, lines |-> 0]
\* the call is made and has not settled
GenerateTextPending == [called |-> TRUE, threw |-> FALSE, lines |-> 0]

FinIdle ==
    /\ fTranscript = <<>> /\ fFullText = <<>> /\ fRealtimeErrors = <<>>
    /\ fResponse = NoResponse /\ fPc = "idle"
    /\ fGenerated = NotGenerated

(* ------------------------------------------------------------------ *)
(* The check-recitation route serving one request                      *)
(* ------------------------------------------------------------------ *)
InitAdvance ==
    /\ aSpoken \in SpokenTexts
    /\ aFullText \in ReferenceTexts
    /\ aPosition \in 0..(MaxRefWords + 1)
    /\ aResult = NoResult
    /\ aPc = "request"
    /\ CmpIdle /\ FinIdle /\ PageInit /\ LibIdle

POST_CheckRecitation ==
    /\ aPc = "request"
    /\ aResult' = checkCurrentWords(aSpoken, aFullText, aPosition)
    /\ aPc' = "response"
    /\ UNCHANGED <<aSpoken, aFullText, aPosition, cmpVars, finVars, pageVars,
                   libVars>>

NextAdvance == POST_CheckRecitation

SpecAdvance == InitAdvance /\ [][NextAdvance]_vars

(* ------------------------------------------------------------------ *)
(* The comparator of the final-analysis route on one pair of texts     *)
(* ------------------------------------------------------------------ *)
InitCompare ==
    /\ cSpoken \in SpokenTexts
    /\ cOriginal \in ReferenceTexts
    /\ cResult = NoComparison
    /\ cPc = "call"
    /\ AdvIdle /\ FinIdle /\ PageInit /\ LibIdle

CompareTexts ==
    /\ cPc = "call"
    /\ cResult' = compareTexts(cSpoken, cOriginal)
    /\ cPc' = "return"
    /\ UNCHANGED <<cSpoken, cOriginal, advVars, finVars, pageVars, libVars>>

NextCompare == CompareTexts

SpecCompare == InitCompare /\ [][NextCompare]_vars

(* ------------------------------------------------------------------ *)
(* The final-analysis route serving the request that ends a session    *)
(* ------------------------------------------------------------------ *)
\* reference texts that are not empty strings and normalise to no token
BlankReferences == {<<"digit1">>, <<"space">>}

InitFinal ==
    /\ fFullText \in ReferenceTexts \cup BlankReferences
    /\ \E chunks \in SeqsUpTo(SessionChunks, MaxSessionChunks) :
          LET served == SerialSession(chunks, fFullText, SessionStart)
          IN /\ fTranscript = served.transcript
             /\ fRealtimeErrors = served.errors
    /\ fResponse = NoResponse
    /\ fPc = "request"
    /\ fGenerated = NotGenerated
    /\ AdvIdle /\ CmpIdle /\ PageInit /\ LibIdle

\* the handler up to `await generateText` (part_002:135, reached from 211):
\* it answers 400 at once, or calls the service and waits
POST_FinalAnalysis ==
    /\ fPc = "request"
    /\ IF fTranscript = <<>> \/ fFullText = <<>>
       THEN /\ fResponse' = FinalAnalysis(fTranscript, fFullText,
                                          fRealtimeErrors, NotGenerated)
            /\ fGenerated' = NotGenerated
            /\ fPc' = "response"
       ELSE /\ fResponse' = NoResponse
            /\ fGenerated' = GenerateTextPending
            /\ fPc' = "awaiting"
    /\ UNCHANGED <<fTranscript, fFullText, fRealtimeErrors, advVars, cmpVars,
                   pageVars, libVars>>

\* generateText settles and the handler goes on to its reply
GenerateTextSettles ==
    /\ fPc = "awaiting"
    /\ \E outcome \in SuggestionOutcomes :
          /\ fResponse' = FinalAnalysis(fTranscript, fFullText, fRealtimeErrors, outcome)
          /\ fGenerated' = [called |-> TRUE, threw |-> outcome.threw,
                            lines |-> outcome.lines]
    /\ fPc' = "response"
    /\ UNCHANGED <<fTranscript, fFullText, fRealtimeErrors, advVars, cmpVars,
                   pageVars, libVars>>

NextFinal == POST_FinalAnalysis \/ GenerateTextSettles

SpecFinal == InitFinal /\ [][NextFinal]_vars

(* ------------------------------------------------------------------ *)
(* The recitation page                                                 *)
(* ------------------------------------------------------------------ *)
\* the normaliser of the page (page.tsx:229-244): one character class for the
\* diacritics, the superscript alif and the tatweel; no Quranic marks
PageDiacritics == {"fatha", "sukun", "superalif", "tatweel"}

pageNormalizeArabicText(text) ==
    IF text = <<>> THEN <<>>
    ELSE
    LET s1 == RemoveChars(text, PageDiacritics)
        s2 == ReplaceChars(s1, AlifVariations, "alif")
        s3 == ReplaceChars(s2, YaVariations, "ya")
        s4 == ReplaceChars(s3, TaMarbuta, "ha")
        s5 == RemoveVerseNumbers(s4)
        s6 == RemoveChars(s5, Digits)
        s7 == CollapseWhitespace(s6)
    IN Trim(s7)

\* the surah the text service returns: two ayahs of one word each
SurahAyahs == <<RefBsm, RefAllah>>
DigitChar(n) == IF n = 1 THEN "digit1" ELSE "digit2"

\* text += ayah.text + ` (${index + 1}) `
RECURSIVE BuildFullText(_, _)
BuildFullText(ayahs, index) ==
    IF index >= Len(ayahs) THEN <<>>
    ELSE ayahs[index + 1]
           \o <<"space", "lparen", DigitChar(index + 1), "rparen", "space">>
           \o BuildFullText(ayahs, index + 1)

\* what the recogniser delivers: finalized pieces (some start with the space
\* the recogniser puts between utterances) and an interim piece
FinalTranscripts ==
    {SpokenBsm, <<"space">> \o SpokenAllah, <<"space">>}
InterimTranscripts == {SpokenBsm}
\* the kinds onerror has a case for
ErrorKinds ==
    {"network", "not-allowed", "no-speech", "audio-capture",
     "service-not-allowed"}
\* the kinds on which onerror runs setIsRecording(false)
StoppingErrorKinds == {"not-allowed", "audio-capture", "service-not-allowed"}

\* The handlers of the recogniser are created once, by the mount effect
\* (page.tsx:88-95, 129-222): onresult, onerror and onend close over the first
\* render, so the fullText, currentPosition, isRecording and error they read,
\* and the processRealtimeText they call, are those of that render.
HandlerRender ==
    [fullText |-> <<>>, currentPosition |-> 0,
     totalWords |-> 0, isRecording |-> FALSE, error |-> ""]

\* the render handlers created anew by every render would read: the state
\* as it stands
LiveRender ==
    [fullText |-> fullText, currentPosition |-> currentPosition,
     totalWords |-> totalWords, isRecording |-> isRecording, error |-> error]

\* processRealtimeText up to its fetch, run in the render `render`: the
\* requests it sends
processRealtimeText(render, spokenText) ==
    IF render.fullText = <<>> \/ Trim(spokenText) = <<>> THEN {}
    ELSE {[url |-> "check", id |-> sessionChunks + 1, session |-> session,
           totalWords |-> render.totalWords,
           spokenText |-> Trim(spokenText),
           fullText |-> render.fullText,
           currentPosition |-> render.currentPosition]}

\* what the surah fetch gives: an answer with code 200 and the ayahs, an
\* answer with another code, or nothing usable (the fetch is rejected, the
\* body is not JSON, or the answer has no ayahs), which throws
SurahOutcomes == {"loaded", "refused", "threw"}

\* the surah fetch resolves: the rest of fetchSurahData
FetchSurahDataResolves(f) ==
    /\ f.url = "surah"
    /\ \E outcome \in SurahOutcomes :
          IF outcome = "loaded" /\ mounted
          THEN LET text == BuildFullText(SurahAyahs, 0)
               IN /\ fullText' = Trim(text)
                  /\ totalWords' = Len(Words(pageNormalizeArabicText(text)))
                  /\ error' = error
          ELSE /\ error' = (IF ~mounted \/ outcome = "loaded" THEN error
                            ELSE IF outcome = "refused"
                            THEN "Failed to load surah data"
                            ELSE "Error fetching surah data")
               /\ UNCHANGED <<fullText, totalWords>>
    /\ loading' = (IF mounted THEN FALSE ELSE loading)
    /\ UNCHANGED <<isRecording, sessionStarted, currentPosition, progress,
                   realtimeErrors, currentTranscript, storedAnalysis, navigation,
                   mounted>>

\* a check-recitation fetch settles and the rest of processRealtimeText runs:
\* the route answered, or the fetch was rejected or answered without
\* newPosition and errors (the route's 500), which sets nothing
CheckRecitationResolves(f, answered) ==
    /\ f.url = "check"
    /\ LET result == checkCurrentWords(f.spokenText, f.fullText, f.currentPosition)
           percent == IF f.totalWords > 0
                      THEN Ratio(result.newPosition * 100, f.totalWords)
                      ELSE Zero
       IN IF mounted /\ answered
          THEN /\ realtimeErrors' = (IF Len(result.errors) > 0
                                      THEN realtimeErrors \o result.errors
                                      ELSE realtimeErrors)
               /\ currentPosition' = result.newPosition
               /\ progress' = (IF RatioLess(percent, 100, 1) THEN percent
                                ELSE Ratio(100, 1))
          ELSE UNCHANGED <<realtimeErrors, currentPosition, progress>>
    /\ UNCHANGED <<loading, fullText, totalWords, isRecording, sessionStarted,
                   error, currentTranscript, storedAnalysis, navigation,
                   mounted>>

\* The final-analysis route keeps no state: its response is a function of the
\* request and of what the advisory service does.  The responses to the
\* requests this page can send (a transcript of finalized pieces, the
\* reference loaded or not) are tabulated once.
RECURSIVE Concat(_)
Concat(pieces) ==
    IF pieces = <<>> THEN <<>> ELSE Head(pieces) \o Concat(Tail(pieces))

PageTranscripts ==
    {Concat(pieces) : pieces \in SeqsUpTo(FinalTranscripts, MaxResults)}
PageFullTexts == {<<>>, Trim(BuildFullText(SurahAyahs, 0))}

FinalAnalysisResponses ==
    [t \in PageTranscripts, ft \in PageFullTexts, o \in SuggestionOutcomes |->
        FinalAnalysis(t, ft, <<>>, o)]

\* what the advisory service does for a request of the page: it fails, or
\* replies with one usable line
PageSuggestionOutcomes ==
    {[threw |-> TRUE, lines |-> 0], [threw |-> FALSE, lines |-> 1]}

\* a final-analysis fetch resolves: the route answers and the rest of
\* processFinalAnalysis stores the answer and asks the router for the results
\* page; the page stays mounted until the router commits the route
FinalAnalysisResolves(f) ==
    /\ f.url = "final"
    /\ \/ /\ \E outcome \in PageSuggestionOutcomes :
               storedAnalysis' =
                   FinalAnalysisResponses[f.transcript, f.fullText, outcome]
          /\ navigation' = "results"
          /\ error' = error
       \/ \* the fetch is rejected: the catch block
          /\ error' = (IF mounted THEN "Failed to process final analysis"
                       ELSE error)
          /\ UNCHANGED <<storedAnalysis, navigation>>
    /\ UNCHANGED <<loading, fullText, totalWords, isRecording, sessionStarted,
                   currentPosition, progress, realtimeErrors, currentTranscript,
                   mounted>>

\* a pending fetch resolves and the async function waiting for it goes on
FetchResolves ==
    /\ \E f \in fetches :
          /\ \/ FetchSurahDataResolves(f)
             \/ \E answered \in BOOLEAN : CheckRecitationResolves(f, answered)
             \/ FinalAnalysisResolves(f)
          /\ fetches' = fetches \ {f}
    /\ UNCHANGED <<recognizing, recEvent, timers, transcriptRef, session,
                   sessionChunks, chunkWords, results, sessionEnded,
                   finalRequests>>
    /\ UNCHANGED <<advVars, cmpVars, finVars, libVars>>

\* the Start Recitation / Resume Recording button
startRecording ==
    /\ mounted /\ ~loading
    /\ ~isRecording
    /\ session < MaxSessions
    /\ sessionStarted' = TRUE
    /\ realtimeErrors' = <<>>
    /\ currentPosition' = 0
    /\ progress' = Zero
    /\ transcriptRef' = <<>>
    /\ currentTranscript' = <<>>
    /\ IF recognizing
       THEN \* start() throws InvalidStateError: the catch block
            /\ error' = "Failed to start speech recognition"
            /\ isRecording' = FALSE
            /\ recEvent' = recEvent
       ELSE /\ error' = ""
            /\ isRecording' = TRUE
            /\ recEvent' = "start"
    /\ recognizing' = TRUE
    /\ session' = session + 1
    /\ sessionChunks' = 0
    /\ chunkWords' = <<>>
    /\ sessionEnded' = FALSE
    /\ finalRequests' = 0
    /\ UNCHANGED <<mounted, loading, fullText, totalWords, fetches, timers,
                   storedAnalysis, navigation, results>>
    /\ UNCHANGED <<advVars, cmpVars, finVars, libVars>>

\* recognition.onstart: the recogniser reports that it has started.  The
\* handlers stay assigned when the page is unmounted; the state setters of an
\* unmounted page set nothing.
onstart ==
    /\ recognizing
    /\ recEvent = "start"
    /\ error' = (IF mounted THEN "" ELSE error)
    /\ recEvent' = "none"
    /\ UNCHANGED <<mounted, loading, fullText, totalWords, isRecording,
                   sessionStarted, currentPosition, progress, realtimeErrors,
                   currentTranscript, transcriptRef, recognizing, timers,
                   fetches, storedAnalysis, navigation, session, sessionChunks,
                   chunkWords, results, sessionEnded, finalRequests>>
    /\ UNCHANGED <<advVars, cmpVars, finVars, libVars>>

\* the tokens of a finalized piece as the check-recitation route takes them
\* from the trimmed text processRealtimeText is given
ChunkTokens ==
    [piece \in FinalTranscripts |-> Words(normalizeArabicText(Trim(piece)))]

\* recognition.onresult with the finalized and the interim text of the event
onresult(finalTranscript, interimTranscript) ==
    /\ recognizing
    /\ recEvent = "none"
    /\ finalTranscript # <<>> \/ interimTranscript # <<>>
    /\ IF finalTranscript # <<>>
       THEN /\ results < MaxResults
            /\ transcriptRef' = transcriptRef \o finalTranscript
            /\ fetches' = fetches
                             \cup processRealtimeText(HandlerRender, finalTranscript)
            /\ sessionChunks' = sessionChunks + 1
            /\ chunkWords' = chunkWords \o ChunkTokens[finalTranscript]
            /\ results' = results + 1
       ELSE UNCHANGED <<transcriptRef, fetches, sessionChunks, chunkWords, results>>
    /\ currentTranscript' = (IF mounted THEN interimTranscript
                             ELSE currentTranscript)
    /\ UNCHANGED <<mounted, loading, fullText, totalWords, isRecording,
                   sessionStarted, currentPosition, progress, realtimeErrors,
                   error, recognizing, recEvent, timers, storedAnalysis,
                   navigation, session, sessionEnded, finalRequests>>
    /\ UNCHANGED <<advVars, cmpVars, finVars, libVars>>

OnResult ==
    \E finalTranscript \in FinalTranscripts \cup {<<>>},
       interimTranscript \in InterimTranscripts \cup {<<>>} :
        onresult(finalTranscript, interimTranscript)

\* recognition.onerror: the handler alone.  The recogniser sends its end
\* event afterwards, and the callback the "network" case gives to setTimeout
\* runs later still.
onerror(kind) ==
    /\ recognizing
    /\ recEvent \in {"start", "none"}
    /\ error' = (IF mounted THEN kind ELSE error)
    /\ isRecording' = (IF mounted /\ kind \in StoppingErrorKinds THEN FALSE
                       ELSE isRecording)
    /\ IF kind = "network"
       THEN /\ timers.reconnect < MaxTimers
            /\ timers' = [timers EXCEPT !.reconnect = @ + 1]
       ELSE timers' = timers
    /\ recEvent' = "end"
    /\ UNCHANGED <<mounted, loading, fullText, totalWords, sessionStarted,
                   currentPosition, progress, realtimeErrors, currentTranscript,
                   transcriptRef, recognizing, fetches, storedAnalysis,
                   navigation, session, sessionChunks, chunkWords, results,
                   sessionEnded, finalRequests>>
    /\ UNCHANGED <<advVars, cmpVars, finVars, libVars>>

OnError == \E kind \in ErrorKinds : onerror(kind)

\* recognition.onend: the recogniser has ended; the handler asks for a restart
\* 100 ms later when the render it closes over is recording with no error
onend ==
    /\ recognizing
    /\ recEvent \in {"none", "end"}
    /\ recognizing' = FALSE
    /\ recEvent' = "none"
    /\ IF HandlerRender.isRecording /\ HandlerRender.error = ""
       THEN /\ timers.restart < MaxTimers
            /\ timers' = [timers EXCEPT !.restart = @ + 1]
       ELSE timers' = timers
    /\ UNCHANGED <<mounted, reactVars, transcriptRef, fetches, storedAnalysis, navigation,
                   session, sessionChunks, chunkWords, results, sessionEnded,
                   finalRequests>>
    /\ UNCHANGED <<advVars, cmpVars, finVars, libVars>>

\* a setTimeout callback runs: that of onerror (page.tsx:174-183) or that of
\* onend (209-218), both reading the render the handlers close over
timeout(kind) ==
    /\ timers[kind] > 0
    /\ timers' = [timers EXCEPT ![kind] = @ - 1]
    /\ LET wanted == IF kind = "reconnect" THEN HandlerRender.isRecording
                     ELSE HandlerRender.isRecording /\ HandlerRender.error = ""
       IN IF ~wanted
          THEN UNCHANGED <<recognizing, recEvent, error>>
          ELSE IF recognizing
          THEN \* start() throws: the catch block
               /\ UNCHANGED <<recognizing, recEvent>>
               /\ error' = (IF kind = "restart" /\ mounted
                            THEN "Failed to restart speech recognition"
                            ELSE error)
          ELSE /\ recognizing' = TRUE
               /\ recEvent' = "start"
               /\ error' = (IF kind = "reconnect" /\ mounted
                            THEN "Reconnecting..." ELSE error)
    /\ UNCHANGED <<mounted, loading, fullText, totalWords, isRecording,
                   sessionStarted, currentPosition, progress, realtimeErrors,
                   currentTranscript, transcriptRef, fetches, storedAnalysis, navigation,
                   session, sessionChunks, chunkWords, results, sessionEnded,
                   finalRequests>>
    /\ UNCHANGED <<advVars, cmpVars, finVars, libVars>>

Timeout == \E kind \in {"reconnect", "restart"} : timeout(kind)

\* the Retry Connection button, shown while the message has "Network" in it:
\* setError(""), and startRecording() when isRecording, which then returns at
\* its own `!isRecording`
retryConnection ==
    /\ mounted /\ ~loading
    /\ error = "network"
    /\ error' = ""
    /\ UNCHANGED <<mounted, loading, fullText, totalWords, isRecording,
                   sessionStarted, currentPosition, progress, realtimeErrors,
                   currentTranscript, transcriptRef, recognizing, recEvent,
                   timers, fetches, storedAnalysis, navigation, session, sessionChunks,
                   chunkWords, results, sessionEnded, finalRequests>>
    /\ UNCHANGED <<advVars, cmpVars, finVars, libVars>>

\* the Back to Home button: router.push("/") asks the router for the home
\* page; the page stays mounted until the router commits the route
backToHome ==
    /\ mounted /\ ~loading
    /\ navigation' = "home"
    /\ UNCHANGED <<mounted, reactVars, transcriptRef, recognizing, recEvent,
                   timers, fetches, storedAnalysis, session, sessionChunks,
                   chunkWords, results, sessionEnded, finalRequests>>
    /\ UNCHANGED <<advVars, cmpVars, finVars, libVars>>

\* the router commits the route it was asked for: the page, when it is still
\* there, is unmounted and the cleanup of the mount effect calls stop(), which
\* asks the recogniser to end; its handlers stay assigned and its end event
\* comes later
unmount ==
    /\ navigation # "none"
    /\ navigation' = "none"
    /\ mounted' = FALSE
    /\ UNCHANGED <<reactVars, transcriptRef, recognizing, recEvent, timers,
                   fetches, storedAnalysis, session, sessionChunks, chunkWords,
                   results, sessionEnded, finalRequests>>
    /\ UNCHANGED <<advVars, cmpVars, finVars, libVars>>

\* processFinalAnalysis up to its fetch
processFinalAnalysis ==
    {[url |-> "final", id |-> 0, session |-> session,
      transcript |-> transcriptRef, fullText |-> fullText,
      realtimeErrors |-> realtimeErrors]}

\* the Stop & Analyze button
stopRecording ==
    /\ mounted /\ ~loading
    /\ sessionStarted /\ isRecording
    /\ isRecording' = FALSE
    /\ IF Trim(transcriptRef) # <<>>
       THEN /\ fetches' = fetches \cup processFinalAnalysis
            /\ finalRequests' = finalRequests + 1
       ELSE UNCHANGED <<fetches, finalRequests>>
    /\ sessionEnded' = TRUE
    /\ UNCHANGED <<mounted, loading, fullText, totalWords, sessionStarted,
                   currentPosition, progress, realtimeErrors, error,
                   currentTranscript, transcriptRef, recognizing, recEvent,
                   timers, storedAnalysis, navigation, session, sessionChunks, chunkWords,
                   results>>
    /\ UNCHANGED <<advVars, cmpVars, finVars, libVars>>

InitPage == PageInit /\ AdvIdle /\ CmpIdle /\ FinIdle /\ LibIdle

NextPage ==
    \/ FetchResolves
    \/ startRecording
    \/ onstart
    \/ OnResult
    \/ OnError
    \/ onend
    \/ Timeout
    \/ retryConnection
    \/ stopRecording
    \/ backToHome
    \/ unmount

SpecPage == InitPage /\ [][NextPage]_vars

(* ------------------------------------------------------------------ *)
(* The normalisers applied to one text                                 *)
(* ------------------------------------------------------------------ *)
\* the handled alphabet: a diacritic, the superscript alif, a Quranic mark,
\* the tatweel, a variant of each letter that has variants, a digit, the
\* parentheses, two kinds of whitespace and a plain letter
Alphabet ==
    {"fatha", "superalif", "smallmeem", "tatweel", "alifHamza", "alifMaqsura",
     "taMarbuta", "digit1", "lparen", "rparen", "space", "newline", "ba"}
MaxTextLen == 3
AlphabetTexts == SeqsUpTo(Alphabet, MaxTextLen)

\* the verses a surah can have
AyahLists == SeqsUpTo({RefBsm, RefAllah}, MaxRefWords) \ {<<>>}

InitNormalize ==
    /\ \/ /\ nAyahs = <<>>
          /\ nText \in AlphabetTexts
       \/ /\ nAyahs \in AyahLists
          /\ nText = BuildFullText(nAyahs, 0)
    /\ nResult = NotNormalized
    /\ nPc = "call"
    /\ AdvIdle /\ CmpIdle /\ FinIdle /\ PageInit /\ SimIdle /\ SerIdle

NormalizeArabicText ==
    /\ nPc = "call"
    /\ nResult' = [route |-> normalizeArabicText(nText),
                   page |-> pageNormalizeArabicText(nText)]
    /\ nPc' = "return"
    /\ UNCHANGED <<nAyahs, nText, advVars, cmpVars, finVars, pageVars,
                   simVars, serVars>>

NextNormalize == NormalizeArabicText

SpecNormalize == InitNormalize /\ [][NextNormalize]_vars

(* ------------------------------------------------------------------ *)
(* The two similarity functions applied to one pair of texts           *)
(* ------------------------------------------------------------------ *)
MaxSimWords == 2
SimWordPool == {SpokenBsm, SpokenAlh, RefAllah}
SimTexts == {JoinWords(ws) : ws \in SeqsUpTo(SimWordPool, MaxSimWords)}

InitSimilarity ==
    /\ wText1 \in SimTexts
    /\ wText2 \in SimTexts
    /\ wWordResult = NotComputed
    /\ wTextResult = NotComputed
    /\ AdvIdle /\ CmpIdle /\ FinIdle /\ PageInit /\ NormIdle /\ SerIdle

\* calculateSimilarity of the check-recitation route
CalculateSimilarity ==
    /\ ~wWordResult.done
    /\ wWordResult' = [done |-> TRUE, value |-> calculateSimilarity(wText1, wText2)]
    /\ UNCHANGED <<wText1, wText2, wTextResult, advVars, cmpVars, finVars,
                   pageVars, normVars, serVars>>

\* calculateTextSimilarity of the final-analysis route
CalculateTextSimilarity ==
    /\ ~wTextResult.done
    /\ wTextResult' =
           [done |-> TRUE, value |-> calculateTextSimilarity(wText1, wText2)]
    /\ UNCHANGED <<wText1, wText2, wWordResult, advVars, cmpVars, finVars,
                   pageVars, normVars, serVars>>

NextSimilarity == CalculateSimilarity \/ CalculateTextSimilarity

SpecSimilarity == InitSimilarity /\ [][NextSimilarity]_vars

(* ------------------------------------------------------------------ *)
(* Properties of the check-recitation route (SpecAdvance)              *)
(* ------------------------------------------------------------------ *)
(* ------------------------------------------------------------------ *)
(* One session of serial calls to the check-recitation route           *)
(* ------------------------------------------------------------------ *)
SerialPool == {SpokenBsm, SpokenAllah, SpokenBsn}
SerialChunks == {JoinWords(ws) : ws \in SeqsUpTo(SerialPool, MaxChunkWords)}

\* the reference positions checkCurrentWords compares against a spoken word:
\* the expectedPosition of each loop index that is below allWords.length
ComparedPositions(spoken, surahText, position) ==
    IF spoken = <<>> \/ surahText = <<>> THEN {}
    ELSE
    LET spokenWords == Words(normalizeArabicText(spoken))
        allWords == Words(normalizeArabicText(surahText))
    IN IF PositionAtEnd(position, allWords) THEN {}
       ELSE {ExpectedPosition(position, i) : i \in 0..(Len(spokenWords) - 1)}
                \cap 0..(Len(allWords) - 1)

InitSerial ==
    /\ sFullText \in ReferenceTexts
    /\ sCursor = 0
    /\ sCalls = 0
    /\ sChunk = <<>>
    /\ sExamined = {}
    /\ sEarlier = {}
    /\ sSent = <<>>
    /\ sErrors = <<>>
    /\ AdvIdle /\ CmpIdle /\ FinIdle /\ PageInit /\ NormIdle /\ SimIdle

\* the next call of the session, made with the cursor the call before returned
SerialAdvance ==
    /\ sCalls < MaxSessionChunks
    /\ \E chunk \in SerialChunks :
          /\ sChunk' = chunk
          /\ sCursor' = checkCurrentWords(chunk, sFullText, sCursor).newPosition
          /\ sExamined' = ComparedPositions(chunk, sFullText, sCursor)
          /\ sErrors' = sErrors
                           \o checkCurrentWords(chunk, sFullText, sCursor).errors
          /\ sSent' = Append(sSent, chunk)
    /\ sEarlier' = sEarlier \cup sExamined
    /\ sCalls' = sCalls + 1
    /\ UNCHANGED <<sFullText, advVars, cmpVars, finVars, pageVars, normVars,
                   simVars>>

NextSerial == SerialAdvance

SpecSerial == InitSerial /\ [][NextSerial]_vars

\* the tokens of every text a request can carry
aTokens == [t \in SpokenTexts \cup ReferenceTexts |-> Words(normalizeArabicText(t))]
aSpokenWords == aTokens[aSpoken]
aAllWords == aTokens[aFullText]
Min(a, b) == IF a <= b THEN a ELSE b

\* C1: called with 0 <= cursor < len(reference) and a chunk of n tokens, the
\* aligner consumes every in-bounds position, matched or flagged Incorrect:
\* newCursor = cursor + min(n, len(reference) - cursor).
C1_ConsumesEveryInBoundsPosition ==
    (aPc = "response" /\ aPosition < Len(aAllWords))
        => aResult.newPosition
             = aPosition + Min(Len(aSpokenWords), Len(aAllWords) - aPosition)

\* C2: for 0 <= cursor <= len(reference) the returned cursor is neither below
\* the given cursor nor beyond the end of the reference.
C2_CursorWithinBounds ==
    aPc = "response"
        => LET allWords == aAllWords
           IN aPosition <= Len(allWords)
                 => /\ aPosition <= aResult.newPosition
                    /\ aResult.newPosition <= Len(allWords)

\* a chunk that runs past the end of the reference: the cursor moved, to the
\* end, and an Extra was reported
C2_Witness ==
    /\ aPc = "response"
    /\ aPosition < aResult.newPosition
    /\ aResult.newPosition = Len(aAllWords)
    /\ \E k \in 1..Len(aResult.errors) : aResult.errors[k].type = "extra"

\* C3: a chunk that normalises to no token, or a cursor equal to
\* len(reference), gives no event and the cursor unchanged.
C3_NoOp ==
    (aPc = "response" /\ (Len(aSpokenWords) = 0 \/ aPosition = Len(aAllWords)))
        => aResult = [errors |-> <<>>, newPosition |-> aPosition]

\* a chunk with words, served with the cursor at the end of a non-empty reference
C3_Witness ==
    /\ aPc = "response"
    /\ Len(aSpokenWords) > 0
    /\ Len(aAllWords) > 0
    /\ aPosition = Len(aAllWords)

\* the k tokens of the chunk are the reference words at cursor .. cursor+k-1
ChunkEqualsReference ==
    LET spokenWords == aSpokenWords
        allWords == aAllWords
    IN /\ aPosition + Len(spokenWords) <= Len(allWords)
       /\ \A i \in 1..Len(spokenWords) : spokenWords[i] = allWords[aPosition + i]

\* C4: a chunk whose k tokens are, normalised, the reference words at
\* cursor .. cursor+k-1 gives no event and newCursor = cursor + k.
C4_MatchingChunkAdvances ==
    (aPc = "response" /\ ChunkEqualsReference)
        => /\ aResult.errors = <<>>
           /\ aResult.newPosition = aPosition + Len(aSpokenWords)

\* two matching tokens from a cursor past the start; the reference is written
\* with a letter variant and a diacritic the chunk does not have
C4_Witness ==
    /\ aPc = "response"
    /\ ChunkEqualsReference
    /\ Len(aSpokenWords) >= 1
    /\ aPosition >= 1
    /\ aAllWords[aPosition + 1] = SpokenAllah
    /\ aResult.newPosition = aPosition + Len(aSpokenWords)

(* ------------------------------------------------------------------ *)
(* Properties of the comparator (SpecCompare)                          *)
(* ------------------------------------------------------------------ *)
cSpokenWords == Words(normalizeArabicText(cSpoken))
cOriginalWords == Words(normalizeArabicText(cOriginal))

\* C9: every Incorrect event of compare carries
\* round(wordSimilarity(spoken[i], reference[i]) * 100), wordSimilarity being
\* the character-set Jaccard score of the check-recitation route.
C9_IncorrectSimilarityIsJaccard ==
    cPc = "return" =>
        \A k \in 1..Len(cResult.differences) :
            LET d == cResult.differences[k]
            IN d.type = "incorrect"
                 => d.similarity = Round100(calculateSimilarity(d.spoken, d.correct))

\* C10: texts that normalise to the same token sequence (both empty included)
\* compare with no difference and similarity exactly 1.0.
C10_EqualTextsCompareEqual ==
    (cPc = "return" /\ cSpokenWords = cOriginalWords)
        => /\ cResult.differences = <<>>
           /\ RatioIsOne(cResult.similarity)

\* equal token sequences of two words from texts that differ as written
C10_Witness ==
    /\ cPc = "return"
    /\ cSpokenWords = cOriginalWords
    /\ Len(cSpokenWords) = 2
    /\ cSpoken # cOriginal
    /\ cResult.differences = <<>>

(* ------------------------------------------------------------------ *)
(* Properties of the final-analysis route (SpecFinal)                  *)
(* ------------------------------------------------------------------ *)
\* the categorized error list of a report
CategorizedErrors(report) ==
    report.errors_by_type.incorrect \o report.errors_by_type.missing
        \o report.errors_by_type.extra

\* a report entry is the realtime event e: same kind, same words
IsEvent(d, e) ==
    /\ d.type = e.type
    /\ e.type = "incorrect" => (d.spoken = e.spoken /\ d.correct = e.expected)
    /\ e.type = "extra" => d.extra = e.spoken

Occurrences(list, e) ==
    Cardinality({k \in 1..Len(list) : IsEvent(list[k], e)})

RealtimeOccurrences(list, e) ==
    Cardinality({k \in 1..Len(list) :
                    /\ list[k].type = e.type
                    /\ list[k].spoken = e.spoken
                    /\ list[k].expected = e.expected})

\* C7: every deviation the incremental aligner classified during the session
\* (every event of realtimeErrors) appears exactly once in the categorized
\* error list of the session's final report.
C7_RealtimeErrorsInReport ==
    fPc = "response" =>
        /\ fRealtimeErrors # <<>> => fResponse.status = 200
        /\ fResponse.status = 200 =>
              \A k \in 1..Len(fRealtimeErrors) :
                  Occurrences(CategorizedErrors(fResponse), fRealtimeErrors[k])
                      = RealtimeOccurrences(fRealtimeErrors, fRealtimeErrors[k])

(* ------------------------------------------------------------------ *)
(* Properties of the recitation page                                   *)
(* ------------------------------------------------------------------ *)
\* onresult takes the finalized piece `chunk`, which has a word in it, while
\* the page is recording a session with the reference loaded
Delivered(chunk) ==
    /\ results' = results + 1
    /\ transcriptRef' = transcriptRef \o chunk
    /\ Trim(chunk) # <<>>
    /\ mounted /\ isRecording /\ fullText # <<>>

C8_OneReportPerEndedSession ==
    sessionEnded => finalRequests = 1

\* the events of one type in the result of the comparator
cEventsOfType(t) == OfType(cResult.differences, t)

\* C11: with S spoken and R reference tokens, compare emits max(0, R - S)
\* Missing events, for the reference words S..R-1 in order, and max(0, S - R)
\* Extra events, for the spoken words R..S-1 in order, and never both kinds.
C11_MissingAndExtraTails ==
    cPc = "return" =>
        LET S == Len(cSpokenWords)
            R == Len(cOriginalWords)
            missing == cEventsOfType("missing")
            extra == cEventsOfType("extra")
        IN /\ Len(missing) = (IF R > S THEN R - S ELSE 0)
           /\ \A k \in 1..Len(missing) :
                  missing[k] = MissingDetail(cOriginalWords[S + k])
           /\ Len(extra) = (IF S > R THEN S - R ELSE 0)
           /\ \A k \in 1..Len(extra) :
                  extra[k] = ExtraDetail(cSpokenWords[R + k])
           /\ (missing = <<>> \/ extra = <<>>)

\* a spoken word that differs from the first reference word, and a second
\* reference word nobody spoke
C11_Witness ==
    /\ cPc = "return"
    /\ Len(cSpokenWords) = 1 /\ Len(cOriginalWords) = 2
    /\ Len(cEventsOfType("incorrect")) = 1
    /\ cEventsOfType("missing") = <<MissingDetail(cOriginalWords[2])>>

(* ------------------------------------------------------------------ *)
(* Properties of the final-analysis route (SpecFinal)                  *)
(* ------------------------------------------------------------------ *)
\* C12: whenever the reference normalises to zero tokens (total_words = 0)
\* the report's completion percentage is 0, whatever the spoken word count.
C12_ZeroTotalGivesZeroCompletion ==
    (fPc = "response" /\ fResponse.status = 200 /\ fResponse.total_words = 0)
        => fResponse.completion_percentage = [isNaN |-> FALSE, tenths |-> 0]

\* C13: a request whose transcript or reference text is empty is answered
\* with a report (not an error) that has no error event, and similarity 1.0
\* when both are empty.
C13_EmptyInputGivesNeutralReport ==
    (fPc = "response" /\ (fTranscript = <<>> \/ fFullText = <<>>))
        => /\ fResponse.status = 200
           /\ fResponse.total_errors = 0
           /\ (fTranscript = <<>> /\ fFullText = <<>>)
                  => fResponse.overall_accuracy = 1000

(* ------------------------------------------------------------------ *)
(* Properties of the normalisers (SpecNormalize)                       *)
(* ------------------------------------------------------------------ *)
\* C14: normalize is idempotent: normalising the normalised text again gives
\* the same text, for the normaliser of the two routes and for the page's.
C14_NormalizeIdempotent ==
    nPc = "return" =>
        /\ normalizeArabicText(nResult.route) = nResult.route
        /\ pageNormalizeArabicText(nResult.page) = nResult.page

\* a text in which the normaliser removes, replaces, collapses and trims
C14_Witness ==
    /\ nPc = "return"
    /\ nText = <<"space", "alifHamza", "digit1">>
    /\ nResult.route = <<"alif">>
    /\ nResult.page = <<"alif">>

\* the words of the verses, verse after verse
nVerseWordsRoute ==
    Concat([k \in 1..Len(nAyahs) |-> Words(normalizeArabicText(nAyahs[k]))])
nVerseWordsPage ==
    Concat([k \in 1..Len(nAyahs) |-> Words(pageNormalizeArabicText(nAyahs[k]))])

\* C15: a reference built by appending " (k) " after each verse normalises
\* and tokenises to exactly the words of its verses: no marker leaves a token
\* in the reference word sequence of the routes or in the page's totalWords.
C15_MarkersLeaveNoToken ==
    (nPc = "return" /\ nAyahs # <<>>)
        => /\ Words(nResult.route) = nVerseWordsRoute
           /\ Len(Words(nResult.page)) = Len(nVerseWordsPage)

(* ------------------------------------------------------------------ *)
(* Properties of the similarity functions (SpecSimilarity)             *)
(* ------------------------------------------------------------------ *)
wNorm1 == normalizeArabicText(wText1)
wNorm2 == normalizeArabicText(wText2)
wChars1 == {wNorm1[i] : i \in 1..Len(wNorm1)}
wChars2 == {wNorm2[i] : i \in 1..Len(wNorm2)}

\* C16: wordSimilarity is exactly 1.0 when the two words normalise to the
\* same word, and otherwise |A \cap B| / |A \cup B| for the character sets A
\* and B of the normalised words; it always lies within [0, 1].
C16_WordSimilarityIsJaccard ==
    wWordResult.done =>
        LET v == wWordResult.value
        IN /\ v.den > 0 /\ 0 <= v.num /\ v.num <= v.den
           /\ (wNorm1 = wNorm2) => (v.num = 1 /\ v.den = 1)
           /\ (wNorm1 # wNorm2) =>
                 v.num * Cardinality(wChars1 \cup wChars2)
                     = Cardinality(wChars1 \cap wChars2) * v.den

\* two words that normalise to different words over the same three letters:
\* the Jaccard branch, with value 3/3
C16_Witness ==
    /\ wWordResult.done
    /\ wText1 = RefAllah /\ wText2 = SpokenAlh
    /\ wNorm1 # wNorm2
    /\ wWordResult.value = Ratio(3, 3)

wWords1 == Words(wNorm1)
wWords2 == Words(wNorm2)
\* how many times a word occurs in a token sequence
TokenCount(ws, w) == Cardinality({i \in 1..Len(ws) : ws[i] = w})
\* the size of the multiset intersection of two token sequences: the k-th
\* occurrence of a word in ws1 counts when ws2 has at least k occurrences
MultisetIntersection(ws1, ws2) ==
    Cardinality({i \in 1..Len(ws1) :
        Cardinality({j \in 1..i : ws1[j] = ws1[i]}) <= TokenCount(ws2, ws1[i])})

\* C17: sequenceSimilarity is m / max(len(spoken), len(reference)), m being
\* the size of the multiset intersection of the two token sequences; it is
\* 1.0 when both are empty and 0 when exactly one is empty.
C17_SequenceSimilarityIsMatchRatio ==
    wTextResult.done =>
        LET v == wTextResult.value
            S == Len(wWords1)
            R == Len(wWords2)
        IN /\ v.den > 0
           /\ (S = 0 /\ R = 0) => v.num = v.den
           /\ ((S = 0) # (R = 0)) => v.num = 0
           /\ (S > 0 /\ R > 0) =>
                 v.num * Max(S, R) = MultisetIntersection(wWords1, wWords2) * v.den

\* two words against the same two words in the other order with one of them
\* repeated instead: one match out of two
C17_Witness ==
    /\ wTextResult.done
    /\ wWords1 = <<SpokenBsm, SpokenBsm>>
    /\ wWords2 = <<SpokenAlh, SpokenBsm>>
    /\ wTextResult.value = Ratio(1, 2)

(* ------------------------------------------------------------------ *)
(* Properties of the improvement suggestions (SpecFinal)               *)
(* ------------------------------------------------------------------ *)
\* C18: whenever the text generator throws or returns no usable suggestion
\* line, the final analysis still completes with a report whose suggestions
\* are one of the fixed lists of five; in every case the report carries
\* between 1 and 5 suggestions.
C18_SuggestionsFallback ==
    (fPc = "response" /\ fGenerated.called)
        => /\ fResponse.status = 200
           /\ fResponse.suggestions.count \in 1..SuggestionCap
           /\ (fGenerated.threw \/ fGenerated.lines = 0)
                  => /\ fResponse.suggestions.from \in {"catch", "fallback"}
                     /\ fResponse.suggestions.count = FallbackCount

\* a reply with no usable line was answered with the five fixed suggestions
C18_Witness ==
    /\ fPc = "response" /\ fGenerated.called
    /\ ~fGenerated.threw /\ fGenerated.lines = 0
    /\ fResponse.status = 200
    /\ fResponse.suggestions = [from |-> "fallback", count |-> FallbackCount]

(* ------------------------------------------------------------------ *)
(* Properties of a session of serial calls (SpecSerial)                *)
(* ------------------------------------------------------------------ *)
\* C19: over the serial calls of one session, each made with the cursor the
\* call before returned, no reference position is compared against a spoken
\* word in more than one call: every position a later call examines is
\* greater than every position an earlier call examined.
C19_NoPositionExaminedTwice ==
    \A later \in sExamined : \A earlier \in sEarlier : later > earlier

(* ------------------------------------------------------------------ *)
(* Classification of a chunk by the check-recitation route (SpecAdvance) *)
(* ------------------------------------------------------------------ *)
\* the similarity of two normalised tokens: 1 when equal, else the Jaccard
\* index of their character sets
aWordSimilarity(w1, w2) ==
    IF w1 = w2 THEN One
    ELSE Ratio(Cardinality(CharSet(w1) \cap CharSet(w2)),
               Cardinality(CharSet(w1) \cup CharSet(w2)))

\* the class of spoken token i (0-based) of a chunk sent at a cursor
aTokenClass(spokenWords, allWords, cursor, i) ==
    IF cursor + i >= Len(allWords) THEN "extra"
    ELSE IF RatioLess(aWordSimilarity(spokenWords[i + 1],
                                      allWords[cursor + i + 1]),
                      MatchThresholdNum, MatchThresholdDen)
         THEN "incorrect"
         ELSE "match"

\* the classes of the tokens of the chunk, in spoken order
aTokenClasses(spokenWords, allWords, cursor) ==
    [k \in 1..Len(spokenWords) |->
        aTokenClass(spokenWords, allWords, cursor, k - 1)]

\* the spoken index (1-based) of the k-th token that is not a match
aFlaggedIndex(classes, k) ==
    CHOOSE m \in 1..Len(classes) :
        /\ classes[m] # "match"
        /\ Cardinality({j \in 1..m : classes[j] # "match"}) = k

\* C20: for a processed chunk (cursor below len(reference)), each spoken token
\* i is classified exactly once: in bounds with similarity >= 0.8 it emits
\* nothing; in bounds with similarity < 0.8 it emits one Incorrect with
\* position cursor+i and expected = reference[cursor+i]; out of bounds it emits
\* one Extra with position cursor+i.  Events are in spoken order and their
\* number is n minus the number of matches.
C20_EachTokenClassifiedOnce ==
    aPc = "response"
        => LET spokenWords == aSpokenWords
               allWords == aAllWords
               classes == aTokenClasses(spokenWords, allWords, aPosition)
               matches == Cardinality({m \in 1..Len(classes) :
                                          classes[m] = "match"})
           IN aPosition < Len(allWords)
                 => /\ Len(aResult.errors) = Len(spokenWords) - matches
                    /\ \A k \in 1..Len(aResult.errors) :
                          LET m == aFlaggedIndex(classes, k)
                              event == aResult.errors[k]
                          IN /\ event.type = classes[m]
                             /\ event.position = aPosition + (m - 1)
                             /\ event.spoken = spokenWords[m]
                             /\ event.type = "incorrect"
                                   => event.expected = allWords[aPosition + m]

\* a chunk of three tokens at the start of a reference of two words: the
\* first matches, the second is flagged incorrect, the third extra
C20_Witness ==
    /\ aPc = "response" /\ aSpoken # <<>>
    /\ aPosition = 0 /\ Len(aAllWords) = 2
    /\ Len(aSpokenWords) = 3
    /\ Len(aResult.errors) = 2
    /\ aResult.errors[1].type = "incorrect" /\ aResult.errors[1].position = 1
    /\ aResult.errors[2].type = "extra" /\ aResult.errors[2].position = 2

(* ------------------------------------------------------------------ *)
(* The comparator as an index-aligned diff (SpecCompare)               *)
(* ------------------------------------------------------------------ *)
\* the k-th smallest member of a set of indexes
cNthIndex(indexes, k) ==
    CHOOSE i \in indexes : Cardinality({j \in indexes : j <= i}) = k

\* C21: the difference list of compare is an index-aligned diff: for each i
\* below min(S, R) it has one Incorrect event exactly when spoken[i] differs
\* from reference[i] as normalised tokens and none when they are equal, so
\* the number of Incorrect events is the number of differing positions below
\* min(S, R), and the total number of errors is the sum of the three
\* per-category counts.
C21_IndexAlignedDiff ==
    cPc = "return" =>
        LET spokenWords == cSpokenWords
            originalWords == cOriginalWords
            differing == {i \in 1..Min(Len(spokenWords), Len(originalWords)) :
                             spokenWords[i] # originalWords[i]}
            incorrect == cEventsOfType("incorrect")
        IN /\ Len(incorrect) = Cardinality(differing)
           /\ \A k \in 1..Len(incorrect) :
                 LET i == cNthIndex(differing, k)
                 IN /\ incorrect[k].spoken = spokenWords[i]
                    /\ incorrect[k].correct = originalWords[i]
           /\ Len(cResult.differences)
                 = Len(incorrect) + Len(cEventsOfType("missing"))
                       + Len(cEventsOfType("extra"))

\* two spoken words against two reference words: the first pair is equal and
\* gives no event, the second differs and gives the one Incorrect event
C21_Witness ==
    /\ cPc = "return"
    /\ Len(cSpokenWords) = 2 /\ Len(cOriginalWords) = 2
    /\ cSpokenWords[1] = cOriginalWords[1]
    /\ cSpokenWords[2] # cOriginalWords[2]
    /\ cResult.differences
          = <<IncorrectDetail(cSpokenWords[2], cOriginalWords[2])>>

(* ------------------------------------------------------------------ *)
(* Finalized results and check-recitation requests (SpecPage)          *)
(* ------------------------------------------------------------------ *)
\* C22: every finalized speech-recognition result received while a session
\* is recording and the reference text is loaded leads to exactly one
\* check-recitation request carrying that chunk and the session's current
\* cursor.
C22_FinalizedResultSendsOneRequest ==
    [][\A chunk \in FinalTranscripts :
          (/\ results' = results + 1
           /\ transcriptRef' = transcriptRef \o chunk
           /\ Trim(chunk) # <<>>
           /\ isRecording /\ fullText # <<>>)
              => /\ Cardinality(fetches' \ fetches) = 1
                 /\ \E f \in fetches' \ fetches :
                       /\ f.url = "check"
                       /\ f.spokenText = Trim(chunk)
                       /\ f.currentPosition = currentPosition]_vars

(* ------------------------------------------------------------------ *)
(* Similarity and differences of the comparator (SpecCompare)          *)
(* ------------------------------------------------------------------ *)
\* C23 as it was claimed: compare returns similarity exactly 1.0 if and only
\* if it returns an empty differences list, for all spoken and reference token
\* sequences, reorderings of the same words included.
C23_SimilarityOneIffNoDifference ==
    cPc = "return"
        => (RatioIsOne(cResult.similarity) <=> cResult.differences = <<>>)

\* the two token sequences hold the same words the same number of times
SameWords(ws1, ws2) ==
    \A w \in {ws1[i] : i \in 1..Len(ws1)} \cup {ws2[i] : i \in 1..Len(ws2)} :
        Cardinality({i \in 1..Len(ws1) : ws1[i] = w})
            = Cardinality({i \in 1..Len(ws2) : ws2[i] = w})

\* C23: compare returns similarity exactly 1.0 if and only if the spoken
\* tokens are the reference tokens in some order; an empty differences list
\* implies similarity 1.0, and a reordering of the reference has similarity
\* 1.0 with a non-empty differences list.
C23_SimilarityOneIffSameWords ==
    cPc = "return"
        => LET spokenWords == cSpokenWords
               originalWords == cOriginalWords
           IN /\ RatioIsOne(cResult.similarity)
                    <=> SameWords(spokenWords, originalWords)
              /\ cResult.differences = <<>> => RatioIsOne(cResult.similarity)

\* two different words spoken in the order opposite to the reference:
\* similarity 1.0 and two incorrect details
C23_Witness ==
    /\ cPc = "return"
    /\ LET spokenWords == cSpokenWords
       IN /\ Len(spokenWords) = 2 /\ spokenWords[1] # spokenWords[2]
          /\ cOriginalWords = <<spokenWords[2], spokenWords[1]>>
    /\ RatioIsOne(cResult.similarity)
    /\ Len(cResult.differences) = 2

(* ------------------------------------------------------------------ *)
(* Serial calls against one call with the whole sequence (SpecSerial)  *)
(* ------------------------------------------------------------------ *)
\* the whole spoken sequence of the session as one chunk
sWholeChunk == JoinWords(sSent)

\* C24: for a reference and a spoken token sequence no longer than the
\* reference, serially advancing from cursor 0 over any split of the sequence
\* into consecutive chunks gives the same final cursor and the same
\* concatenated event list as one call with the whole sequence.
C24_ChunkingInvariance ==
    LET whole == checkCurrentWords(sWholeChunk, sFullText, 0)
    IN Len(Words(normalizeArabicText(sWholeChunk)))
           <= Len(Words(normalizeArabicText(sFullText)))
          => /\ sCursor = whole.newPosition
             /\ sErrors = whole.errors

(* ------------------------------------------------------------------ *)
(* The session transcript and its chunks (SpecPage)                    *)
(* ------------------------------------------------------------------ *)
\* C25: the token sequence of the accumulated session transcript handed to
\* the full-session comparator is the concatenation, in arrival order, of the
\* token sequences of the finalized chunks: appending a chunk never merges its
\* first word with the last word of the chunk before.
C25_TranscriptTokensAreChunkTokens ==
    [][\A f \in fetches' \ fetches :
          f.url = "final"
              => Words(normalizeArabicText(f.transcript)) = chunkWords]_vars

====
